---- MODULE Spec2Model ----
(***************************************************************************)
(* Model of the aquatic tracker's access list (aquatic_common), of the     *)
(* supervisor of aquatic_udp (run: start-up, channel fabric, worker        *)
(* spawning, signal loop) and of the WebSocket socket worker's connection  *)
(* table (aquatic_ws network module).                                      *)
(***************************************************************************)
EXTENDS Integers, Sequences, FiniteSets, TLC

(***************************************************************************)
(* Bounds of the model.                                                    *)
(***************************************************************************)
\* longest access-list file, in lines
MaxLines == 2

\* successful loads told apart by the counter okLoads
MaxLoads == 2

\* config.request_workers and config.socket_workers
NumRequestWorkers == 2
NumSocketWorkers == 2

\* capacity of a channel (config.worker_channel_size)
MaxQueue == 1

\* requests the socket workers send in one run of the model
MaxMsgs == 3

\* bits of the machine word (usize) of the token counter
WordBits == 2

\* streams the listener hands out in one run of the model
MaxStreams == 4

\* iterations of the socket worker's loop in one run of the model
MaxIters == 2

\* bits of the word of the socket worker's iteration counter
IterBits == 7

\* how far the clock goes
MaxTime == 2

\* config.cleaning.max_connection_age, in ticks of the clock
MaxAge == 1

\* messages read from streams and out-messages produced in one run
MaxIn == 2
MaxOut == 1

\* the cleaning period: iter_counter % 128
CleanPeriod == 128

\* bytes of an info hash: [0u8; 20]
HashLen == 20

(***************************************************************************)
(* Text lines.  A line is the sequence of its bytes, each byte written as  *)
(* the one-character string it encodes in ASCII ("0xC3", "0xB6" are the    *)
(* two bytes of a non-ASCII character in UTF-8).                           *)
(***************************************************************************)
Rep(c, n) == [i \in 1..n |-> c]

Range(s) == {s[i] : i \in 1..Len(s)}

Quad(c) == <<c, c, c, c>>

\* "aaaabbbbccccddddeeeeaaaabbbbccccddddeeee", the line of the unit test
TestHex ==
    Quad("a") \o Quad("b") \o Quad("c") \o Quad("d") \o Quad("e")
        \o Quad("a") \o Quad("b") \o Quad("c") \o Quad("d") \o Quad("e")

LineA == Rep("a", 2 * HashLen)
LineB == TestHex
LineUpperA == Rep("A", 2 * HashLen)
LineTooLong == TestHex \o <<"f">>
LineTooShort == SubSeq(TestHex, 1, Len(TestHex) - 1)
LineEmpty == <<>>
LineNonHex == [TestHex EXCEPT ![Len(TestHex)] = "g"]
LineOUml == LineTooShort \o <<"0xC3", "0xB6">>
\* a line whose bytes are not UTF-8 text
LineBadUtf8 == <<"0xFF">>

Lines ==
    {LineA, LineB, LineUpperA, LineTooLong, LineTooShort, LineEmpty, LineNonHex,
     LineBadUtf8}

SeqsUpTo(S, n) == UNION {[1..k -> S] : k \in 0..n}

NoFile == [exists |-> FALSE, lines |-> <<>>]

Files == {NoFile} \cup {[exists |-> TRUE, lines |-> ls] : ls \in SeqsUpTo(Lines, MaxLines)}

(***************************************************************************)
(* hex::decode_to_slice, as called by parse_info_hash: the value of one    *)
(* hex digit (either case), -1 for any other byte.                         *)
(***************************************************************************)
DecDigits == <<"0", "1", "2", "3", "4", "5", "6", "7", "8", "9">>
LowerDigits == <<"a", "b", "c", "d", "e", "f">>
UpperDigits == <<"A", "B", "C", "D", "E", "F">>

\* the digit's value for each byte that is a hex digit
HexValue ==
    [c \in Range(DecDigits) \cup Range(LowerDigits) \cup Range(UpperDigits) |->
        IF \E i \in 1..Len(DecDigits) : DecDigits[i] = c
        THEN (CHOOSE i \in 1..Len(DecDigits) : DecDigits[i] = c) - 1
        ELSE IF \E i \in 1..Len(LowerDigits) : LowerDigits[i] = c
        THEN (CHOOSE i \in 1..Len(LowerDigits) : LowerDigits[i] = c) + 9
        ELSE (CHOOSE i \in 1..Len(UpperDigits) : UpperDigits[i] = c) + 9]

val(c) == IF c \in DOMAIN HexValue THEN HexValue[c] ELSE -1

\* decode_to_slice(line, out) with out of n bytes: odd length, a length other
\* than 2n and a byte that is no hex digit are errors
decode_to_slice(line, n) ==
    IF Len(line) % 2 # 0 THEN [ok |-> FALSE, bytes |-> <<>>]
    ELSE IF Len(line) \div 2 # n THEN [ok |-> FALSE, bytes |-> <<>>]
    ELSE IF \E i \in 1..Len(line) : val(line[i]) = -1
         THEN [ok |-> FALSE, bytes |-> <<>>]
    ELSE [ok |-> TRUE,
          bytes |-> [i \in 1..n |-> val(line[2 * i - 1]) * 16 + val(line[2 * i])]]

parse_info_hash(line) == decode_to_slice(line, HashLen)

\* BufRead::lines, one item: the line as a String, or an error when its bytes
\* are not UTF-8 (0xFF is the byte of the model's lines that no UTF-8 text holds)
read_line(bytes) ==
    IF "0xFF" \in Range(bytes) THEN [ok |-> FALSE, line |-> <<>>]
    ELSE [ok |-> TRUE, line |-> bytes]

\* Self::parse_info_hash(line?)
parse_line(bytes) ==
    LET l == read_line(bytes)
    IN IF l.ok THEN parse_info_hash(l.line) ELSE [ok |-> FALSE, bytes |-> <<>>]

HashA == parse_info_hash(LineA).bytes
HashB == parse_info_hash(LineB).bytes
\* an info hash that no line of the model's files encodes
HashC == Rep(17, HashLen)

Hashes == {HashA, HashB, HashC}

AccessListMode == {"Require", "Forbid", "Ignore"}

(***************************************************************************)
(* AccessList::allows                                                      *)
(***************************************************************************)
allows_ignore_as_require(set, list_type, info_hash_bytes) ==
    CASE list_type = "Require" -> info_hash_bytes \in set
      [] list_type = "Forbid" -> info_hash_bytes \notin set
      [] list_type = "Ignore" -> info_hash_bytes \in set

allows_forbid_as_require(set, list_type, info_hash_bytes) ==
    CASE list_type = "Require" -> info_hash_bytes \in set
      [] list_type = "Forbid" -> info_hash_bytes \in set
      [] list_type = "Ignore" -> TRUE

allows(set, list_type, info_hash_bytes) ==
    CASE list_type = "Require" -> info_hash_bytes \in set
      [] list_type = "Forbid" -> info_hash_bytes \notin set
      [] list_type = "Ignore" -> TRUE

(***************************************************************************)
(* AccessList::update_from_path as one call: the result and the set held   *)
(* afterwards, given the file and the set held before.                     *)
(***************************************************************************)
RECURSIVE load_lines(_, _, _)
load_lines(lines, i, acc) ==
    IF i > Len(lines) THEN [ok |-> TRUE, set |-> acc]
    ELSE LET r == parse_line(lines[i])
         IN IF r.ok THEN load_lines(lines, i + 1, acc \cup {r.bytes})
            ELSE [ok |-> FALSE, set |-> {}]

update_from_path(f, cur) ==
    IF ~f.exists THEN [ok |-> FALSE, set |-> cur]
    ELSE LET r == load_lines(f.lines, 1, {})
         IN IF r.ok THEN [ok |-> TRUE, set |-> r.set]
            ELSE [ok |-> FALSE, set |-> cur]

\* update_access_list: the list is loaded only when the mode uses it; the
\* Result is the one run propagates with `?` and discards with `let _ =`
update_access_list(m, f, cur) ==
    IF m \in {"Require", "Forbid"} THEN update_from_path(f, cur)
    ELSE [ok |-> TRUE, set |-> cur]

\* the files the operator installs at the path while the tracker runs: none,
\* an empty one, well-formed ones and one with a malformed second line
EditFiles ==
    {NoFile} \cup
    {[exists |-> TRUE, lines |-> ls] :
        ls \in {<<>>, <<LineA>>, <<LineB>>, <<LineA, LineB>>, <<LineB, LineEmpty>>}}

RequestWorkerIndex == 0..(NumRequestWorkers - 1)
SocketWorkerIndex == 0..(NumSocketWorkers - 1)

VARIABLES
    file,        \* the file at config.access_list.path
    list,        \* AccessList.0, the set the readers consult
    pcLoad,      \* position of update_from_path: "idle" or "lines"
    rdIdx,       \* lines of the file consumed by the running update_from_path
    new_list,    \* update_from_path's local set
    loadResult,  \* result of the last finished update_from_path
    oldList,     \* the set held when the last update_from_path started
    okLoads,     \* calls of update_from_path that returned Ok, counted up to MaxLoads
    lastCheck,   \* the last call of allows: its arguments, what it read, its answer
    \* ---- aquatic_udp: run ----
    mode,                 \* config.access_list.mode
    statsActive,          \* config.statistics.active()
    supPc,                \* the statement run is at
    spawnIdx,             \* the loop variable i of the spawning loops
    runResult,            \* what run returned: "None" while it runs
    startupErr,           \* the start-up call that returned an error, if any
    lastSignal,           \* the signal the loop handled last
    fileState,            \* "loaded", "changed" since the last load, "reloaded" by SIGUSR1
    request_senders,      \* run's Vec of request senders (channel indices)
    response_senders,     \* run's Vec of response senders
    request_receivers,    \* keys of run's map of request receivers
    response_receivers,   \* keys of run's map of response receivers
    requestWorkers,       \* request workers spawned
    socketWorkers,        \* socket workers spawned
    statisticsWorker,     \* the statistics worker is spawned
    workerRequestSenders, \* socket worker -> request channels it holds a sender of
    workerResponseSenders,\* request worker -> response channels it holds a sender of
    workerRequestReceiver,\* request worker -> request channels it holds the receiver of
    workerResponseReceiver,\* socket worker -> response channels it holds the receiver of
    requestQueue,         \* request channel -> messages in flight
    responseQueue,        \* response channel -> messages in flight
    requestProducers,     \* request channel -> socket workers that have sent on it
    responseProducers,    \* response channel -> request workers that have sent on it
    sent,                 \* requests sent so far
    \* ---- aquatic_ws: run_socket_worker ----
    use_tls,              \* config.network.use_tls
    connections,          \* ConnectionMap: token -> connection
    poll_token_counter,   \* the token given to the last accepted stream
    accepted,             \* streams accepted so far; the next stream is accepted + 1
    lastEvicted,          \* the stream the last accept removed from the table, 0 if none
    wsPc,                 \* where the worker's loop is: "poll", "events", "accept",
                          \* "read", "send_out" or "clean"
    curToken,             \* the token of the event being handled
    budget,               \* the budgets of this run of the worker
    peers,                \* the peer address of each accepted stream
    now,                  \* the time
    valid_until,          \* the local valid_until of the iteration
    iter_counter,         \* the local iter_counter
    iterIndex,            \* iterations of the loop completed
    didClean,             \* the last iteration ran remove_inactive_connections
    reads,                \* messages read from streams so far
    inMessages,           \* what was sent on the in-message channel, in order
    outMessages,          \* the out-message channel
    drain,                \* the Drain that send_out_messages iterates over
    replied,              \* out-messages produced so far
    lastWrite,            \* the last write_message: its token, stream and result
    wroteThisIter,        \* an out-message was written in this iteration
    lastHandshake         \* what the last advance_handshakes gave: "Some" or "None"

alVars == <<file, list, pcLoad, rdIdx, new_list, loadResult, oldList, okLoads, lastCheck>>

loaderVars == <<pcLoad, rdIdx, new_list, loadResult, oldList, okLoads>>

configVars == <<mode, statsActive>>

handleVars ==
    <<request_senders, response_senders, request_receivers, response_receivers,
      workerRequestSenders, workerResponseSenders,
      workerRequestReceiver, workerResponseReceiver>>

workerVars == <<requestWorkers, socketWorkers, statisticsWorker>>

trafficVars == <<requestQueue, responseQueue, requestProducers, responseProducers, sent>>

runVars == <<supPc, spawnIdx, runResult, startupErr, lastSignal, fileState>>

supVars == <<configVars, runVars, handleVars, workerVars, trafficVars>>

wsVars ==
    <<use_tls, connections, poll_token_counter, accepted, lastEvicted, wsPc, curToken,
      budget, peers, now, valid_until, iter_counter, iterIndex, didClean, reads,
      inMessages, outMessages, drain, replied, lastWrite, wroteThisIter,
      lastHandshake>>

vars == <<alVars, supVars, wsVars>>

NoCheck == [mode |-> "None", hash |-> <<>>, view |-> {}, ans |-> FALSE, when |-> "never"]

(***************************************************************************)
(* update_from_path, one step per statement that a reader can interleave   *)
(* with: File::open, one iteration of the loop over the lines, and the     *)
(* assignment self.0 = new_list.                                           *)
(***************************************************************************)
update_from_path_open ==
    /\ pcLoad = "idle"
    /\ IF file.exists
       THEN /\ pcLoad' = "lines"
            /\ rdIdx' = 0
            /\ new_list' = {}
            /\ loadResult' = "None"
            /\ oldList' = list
       ELSE /\ loadResult' = "Err"
            /\ UNCHANGED <<pcLoad, rdIdx, new_list, oldList>>
    /\ UNCHANGED <<file, list, okLoads, lastCheck>>
    /\ UNCHANGED <<supVars, wsVars>>

\* a mutant that inserts each parsed hash into the shared set at once
update_from_path_line_in_place ==
    /\ pcLoad = "lines"
    /\ rdIdx < Len(file.lines)
    /\ rdIdx' = rdIdx + 1
    /\ LET r == parse_line(file.lines[rdIdx + 1])
       IN IF r.ok
          THEN /\ new_list' = new_list \cup {r.bytes}
               /\ list' = (IF rdIdx = 0 THEN {} ELSE list) \cup {r.bytes}
               /\ UNCHANGED <<pcLoad, loadResult>>
          ELSE /\ pcLoad' = "idle"
               /\ loadResult' = "Err"
               /\ UNCHANGED <<new_list, list>>
    /\ UNCHANGED <<file, oldList, okLoads, lastCheck>>
    /\ UNCHANGED <<supVars, wsVars>>

\* a mutant that skips a line that does not parse
update_from_path_line_skip ==
    /\ pcLoad = "lines"
    /\ rdIdx < Len(file.lines)
    /\ rdIdx' = rdIdx + 1
    /\ LET r == parse_line(file.lines[rdIdx + 1])
       IN new_list' = IF r.ok THEN new_list \cup {r.bytes} ELSE new_list
    /\ UNCHANGED <<file, list, pcLoad, loadResult, oldList, okLoads, lastCheck>>
    /\ UNCHANGED <<supVars, wsVars>>

\* a mutant that empties the shared set when a line fails
update_from_path_line_clear ==
    /\ pcLoad = "lines"
    /\ rdIdx < Len(file.lines)
    /\ rdIdx' = rdIdx + 1
    /\ LET r == parse_line(file.lines[rdIdx + 1])
       IN IF r.ok
          THEN /\ new_list' = new_list \cup {r.bytes}
               /\ UNCHANGED <<pcLoad, loadResult, list>>
          ELSE /\ pcLoad' = "idle"
               /\ loadResult' = "Err"
               /\ list' = {}
               /\ UNCHANGED new_list
    /\ UNCHANGED <<file, oldList, okLoads, lastCheck>>
    /\ UNCHANGED <<supVars, wsVars>>

update_from_path_line ==
    /\ pcLoad = "lines"
    /\ rdIdx < Len(file.lines)
    /\ rdIdx' = rdIdx + 1
    /\ LET r == parse_line(file.lines[rdIdx + 1])
       IN IF r.ok
          THEN /\ new_list' = new_list \cup {r.bytes}
               /\ UNCHANGED <<pcLoad, loadResult>>
          ELSE /\ pcLoad' = "idle"
               /\ loadResult' = "Err"
               /\ UNCHANGED new_list
    /\ UNCHANGED <<file, list, oldList, okLoads, lastCheck>>
    /\ UNCHANGED <<supVars, wsVars>>

\* a mutant that adds the new hashes to the set instead of replacing it
update_from_path_install_extend ==
    /\ pcLoad = "lines"
    /\ rdIdx = Len(file.lines)
    /\ list' = list \cup new_list
    /\ pcLoad' = "idle"
    /\ loadResult' = "Ok"
    /\ okLoads' = IF okLoads < MaxLoads THEN okLoads + 1 ELSE okLoads
    /\ UNCHANGED <<file, rdIdx, new_list, oldList, lastCheck>>
    /\ UNCHANGED <<supVars, wsVars>>

update_from_path_install ==
    /\ pcLoad = "lines"
    /\ rdIdx = Len(file.lines)
    /\ list' = new_list
    /\ pcLoad' = "idle"
    /\ loadResult' = "Ok"
    /\ okLoads' = IF okLoads < MaxLoads THEN okLoads + 1 ELSE okLoads
    /\ UNCHANGED <<file, rdIdx, new_list, oldList, lastCheck>>
    /\ UNCHANGED <<supVars, wsVars>>

\* a reader calls allows(list_type, info_hash_bytes)
allows_call(list_type, info_hash_bytes) ==
    /\ lastCheck' = [mode |-> list_type,
                     hash |-> info_hash_bytes,
                     view |-> list,
                     ans |-> allows(list, list_type, info_hash_bytes),
                     when |-> IF pcLoad = "lines" /\ rdIdx > 0 THEN "loading" ELSE "quiet"]
    /\ UNCHANGED <<file, list, loaderVars, supVars, wsVars>>

(***************************************************************************)
(* aquatic_udp: run.  One action per statement (or loop iteration) after   *)
(* which a spawned worker can run.                                         *)
(***************************************************************************)
\* run returns: its locals (the sender Vecs and the receiver maps) are dropped
ReturnFromRun(result) ==
    /\ supPc' = "returned"
    /\ runResult' = result
    /\ request_senders' = {}
    /\ response_senders' = {}
    /\ request_receivers' = {}
    /\ response_receivers' = {}

\* a mutant that goes on after a failed initial load (let _ = in place of ?)
RunUpdateAccessList_ignore_error ==
    /\ supPc = "update_access_list"
    /\ LET r == update_access_list(mode, file, {})
       IN /\ list' = r.set
          /\ fileState' = "loaded"
          /\ supPc' = "signals"
          /\ startupErr' = IF r.ok THEN startupErr ELSE "update_access_list"
          /\ UNCHANGED <<runResult, handleVars>>
    /\ UNCHANGED <<file, loaderVars, lastCheck, configVars, spawnIdx, lastSignal,
                   workerVars, trafficVars>>
    /\ UNCHANGED wsVars

\* State::new and update_access_list(&config.access_list, &state.access_list)?
RunUpdateAccessList ==
    /\ supPc = "update_access_list"
    /\ LET r == update_access_list(mode, file, {})
       IN /\ list' = r.set
          /\ fileState' = "loaded"
          /\ IF r.ok
             THEN /\ supPc' = "signals"
                  /\ UNCHANGED <<runResult, startupErr, handleVars>>
             ELSE /\ startupErr' = "update_access_list"
                  /\ ReturnFromRun("Err")
                  /\ UNCHANGED <<workerRequestSenders, workerResponseSenders,
                                 workerRequestReceiver, workerResponseReceiver>>
    /\ UNCHANGED <<file, loaderVars, lastCheck, configVars, spawnIdx, lastSignal,
                   workerVars, trafficVars>>
    /\ UNCHANGED wsVars

\* Signals::new([SIGUSR1, SIGTERM])?
RunSignalsNew ==
    /\ supPc = "signals"
    /\ \E ok \in BOOLEAN :
          IF ok
          THEN /\ supPc' = "channels"
               /\ UNCHANGED <<runResult, startupErr, handleVars>>
          ELSE /\ startupErr' = "signals"
               /\ ReturnFromRun("Err")
               /\ UNCHANGED <<workerRequestSenders, workerResponseSenders,
                              workerRequestReceiver, workerResponseReceiver>>
    /\ UNCHANGED <<alVars, configVars, spawnIdx, lastSignal, fileState,
                   workerVars, trafficVars>>
    /\ UNCHANGED wsVars

\* the two loops that create the channels: one request channel for each
\* request worker, one response channel for each socket worker
RunCreateChannels ==
    /\ supPc = "channels"
    /\ request_senders' = RequestWorkerIndex
    /\ request_receivers' = RequestWorkerIndex
    /\ response_senders' = SocketWorkerIndex
    /\ response_receivers' = SocketWorkerIndex
    /\ supPc' = "spawn_request"
    /\ spawnIdx' = 0
    /\ UNCHANGED <<alVars, configVars, runResult, startupErr, lastSignal, fileState,
                   workerRequestSenders, workerResponseSenders,
                   workerRequestReceiver, workerResponseReceiver,
                   workerVars, trafficVars>>
    /\ UNCHANGED wsVars

\* a mutant that hands request worker i the sender of response channel i only
RunSpawnRequestWorker_one_sender ==
    /\ supPc = "spawn_request"
    /\ spawnIdx < NumRequestWorkers
    /\ LET i == spawnIdx
       IN \E ok \in BOOLEAN :
            IF ok
            THEN /\ request_receivers' = request_receivers \ {i}
                 /\ workerRequestReceiver' = [workerRequestReceiver EXCEPT ![i] = {i}]
                 /\ workerResponseSenders' =
                        [workerResponseSenders EXCEPT ![i] = response_senders \cap {i}]
                 /\ requestWorkers' = requestWorkers \cup {i}
                 /\ spawnIdx' = IF i + 1 < NumRequestWorkers THEN i + 1 ELSE 0
                 /\ supPc' = IF i + 1 < NumRequestWorkers THEN "spawn_request"
                             ELSE "spawn_socket"
                 /\ UNCHANGED <<runResult, startupErr, request_senders, response_senders,
                                response_receivers>>
            ELSE /\ startupErr' = "spawn request worker"
                 /\ ReturnFromRun("Err")
                 /\ UNCHANGED <<spawnIdx, requestWorkers, workerRequestReceiver,
                                workerResponseSenders>>
    /\ UNCHANGED <<alVars, configVars, lastSignal, fileState, workerRequestSenders,
                   workerResponseReceiver, socketWorkers, statisticsWorker, trafficVars>>
    /\ UNCHANGED wsVars

\* one iteration of the loop spawning the request workers: worker i gets the
\* receiver removed from the map under i and a clone of all response senders
RunSpawnRequestWorker ==
    /\ supPc = "spawn_request"
    /\ spawnIdx < NumRequestWorkers
    /\ LET i == spawnIdx
       IN \E ok \in BOOLEAN :
            IF ok
            THEN /\ request_receivers' = request_receivers \ {i}
                 /\ workerRequestReceiver' = [workerRequestReceiver EXCEPT ![i] = {i}]
                 /\ workerResponseSenders' =
                        [workerResponseSenders EXCEPT ![i] = response_senders]
                 /\ requestWorkers' = requestWorkers \cup {i}
                 /\ spawnIdx' = IF i + 1 < NumRequestWorkers THEN i + 1 ELSE 0
                 /\ supPc' = IF i + 1 < NumRequestWorkers THEN "spawn_request"
                             ELSE "spawn_socket"
                 /\ UNCHANGED <<runResult, startupErr, request_senders, response_senders,
                                response_receivers>>
            ELSE /\ startupErr' = "spawn request worker"
                 /\ ReturnFromRun("Err")
                 /\ UNCHANGED <<spawnIdx, requestWorkers, workerRequestReceiver,
                                workerResponseSenders>>
    /\ UNCHANGED <<alVars, configVars, lastSignal, fileState, workerRequestSenders,
                   workerResponseReceiver, socketWorkers, statisticsWorker, trafficVars>>
    /\ UNCHANGED wsVars

\* a mutant that hands every socket worker a clone of the first response
\* receiver and leaves the map as it is (get(&0) in place of remove(&i))
RunSpawnSocketWorker_shared_receiver ==
    /\ supPc = "spawn_socket"
    /\ spawnIdx < NumSocketWorkers
    /\ LET i == spawnIdx
       IN \E ok \in BOOLEAN :
            IF ok
            THEN /\ response_receivers' = response_receivers
                 /\ workerResponseReceiver' = [workerResponseReceiver EXCEPT ![i] = {0}]
                 /\ workerRequestSenders' =
                        [workerRequestSenders EXCEPT ![i] = request_senders]
                 /\ socketWorkers' = socketWorkers \cup {i}
                 /\ spawnIdx' = IF i + 1 < NumSocketWorkers THEN i + 1 ELSE 0
                 /\ supPc' = IF i + 1 < NumSocketWorkers THEN "spawn_socket"
                             ELSE "spawn_statistics"
                 /\ UNCHANGED <<runResult, startupErr, request_senders, response_senders,
                                request_receivers>>
            ELSE /\ startupErr' = "spawn socket worker"
                 /\ ReturnFromRun("Err")
                 /\ UNCHANGED <<spawnIdx, socketWorkers, workerResponseReceiver,
                                workerRequestSenders>>
    /\ UNCHANGED <<alVars, configVars, lastSignal, fileState, workerResponseSenders,
                   workerRequestReceiver, requestWorkers, statisticsWorker, trafficVars>>
    /\ UNCHANGED wsVars

\* one iteration of the loop spawning the socket workers: worker i gets a
\* clone of all request senders and the receiver removed from the map under i
RunSpawnSocketWorker ==
    /\ supPc = "spawn_socket"
    /\ spawnIdx < NumSocketWorkers
    /\ LET i == spawnIdx
       IN \E ok \in BOOLEAN :
            IF ok
            THEN /\ response_receivers' = response_receivers \ {i}
                 /\ workerResponseReceiver' = [workerResponseReceiver EXCEPT ![i] = {i}]
                 /\ workerRequestSenders' =
                        [workerRequestSenders EXCEPT ![i] = request_senders]
                 /\ socketWorkers' = socketWorkers \cup {i}
                 /\ spawnIdx' = IF i + 1 < NumSocketWorkers THEN i + 1 ELSE 0
                 /\ supPc' = IF i + 1 < NumSocketWorkers THEN "spawn_socket"
                             ELSE "spawn_statistics"
                 /\ UNCHANGED <<runResult, startupErr, request_senders, response_senders,
                                request_receivers>>
            ELSE /\ startupErr' = "spawn socket worker"
                 /\ ReturnFromRun("Err")
                 /\ UNCHANGED <<spawnIdx, socketWorkers, workerResponseReceiver,
                                workerRequestSenders>>
    /\ UNCHANGED <<alVars, configVars, lastSignal, fileState, workerResponseSenders,
                   workerRequestReceiver, requestWorkers, statisticsWorker, trafficVars>>
    /\ UNCHANGED wsVars

\* if config.statistics.active() { spawn the statistics worker }
RunSpawnStatisticsWorker ==
    /\ supPc = "spawn_statistics"
    /\ IF statsActive
       THEN \E ok \in BOOLEAN :
              IF ok
              THEN /\ statisticsWorker' = TRUE
                   /\ supPc' = "signal_loop"
                   /\ UNCHANGED <<runResult, startupErr, handleVars>>
              ELSE /\ startupErr' = "spawn statistics worker"
                   /\ ReturnFromRun("Err")
                   /\ UNCHANGED <<statisticsWorker, workerRequestSenders,
                                  workerResponseSenders, workerRequestReceiver,
                                  workerResponseReceiver>>
       ELSE /\ supPc' = "signal_loop"
            /\ UNCHANGED <<statisticsWorker, runResult, startupErr, handleVars>>
    /\ UNCHANGED <<alVars, configVars, spawnIdx, lastSignal, fileState,
                   requestWorkers, socketWorkers, trafficVars>>
    /\ UNCHANGED wsVars

\* a mutant whose SIGUSR1 arm does not reload
SigUsr1_no_reload ==
    /\ supPc = "signal_loop"
    /\ lastSignal' = "SIGUSR1"
    /\ fileState' = IF fileState = "changed" THEN "reloaded" ELSE fileState
    /\ UNCHANGED <<file, list, loaderVars, lastCheck, configVars, supPc, spawnIdx,
                   runResult, startupErr, handleVars, workerVars, trafficVars>>
    /\ UNCHANGED wsVars

\* a mutant whose SIGUSR1 arm returns the error of a failed reload (? in place
\* of let _ =)
SigUsr1_fatal ==
    /\ supPc = "signal_loop"
    /\ lastSignal' = "SIGUSR1"
    /\ fileState' = IF fileState = "changed" THEN "reloaded" ELSE fileState
    /\ LET r == update_access_list(mode, file, list)
       IN /\ list' = r.set
          /\ IF r.ok
             THEN UNCHANGED <<supPc, runResult, startupErr, handleVars>>
             ELSE /\ startupErr' = "update_access_list"
                  /\ ReturnFromRun("Err")
                  /\ UNCHANGED <<workerRequestSenders, workerResponseSenders,
                                 workerRequestReceiver, workerResponseReceiver>>
    /\ UNCHANGED <<file, loaderVars, lastCheck, configVars, spawnIdx,
                   workerVars, trafficVars>>
    /\ UNCHANGED wsVars

\* SIGUSR1 => { let _ = update_access_list(&config.access_list, &state.access_list); }
SigUsr1 ==
    /\ supPc = "signal_loop"
    /\ lastSignal' = "SIGUSR1"
    /\ list' = update_access_list(mode, file, list).set
    /\ fileState' = IF fileState = "changed" THEN "reloaded" ELSE fileState
    /\ UNCHANGED <<file, loaderVars, lastCheck, configVars, supPc, spawnIdx,
                   runResult, startupErr, handleVars, workerVars, trafficVars>>
    /\ UNCHANGED wsVars

\* a mutant whose SIGTERM arm drops every sender of every channel first
SigTerm_close_channels ==
    /\ supPc = "signal_loop"
    /\ lastSignal' = "SIGTERM"
    /\ ReturnFromRun("Ok")
    /\ workerRequestSenders' = [j \in SocketWorkerIndex |-> {}]
    /\ workerResponseSenders' = [i \in RequestWorkerIndex |-> {}]
    /\ UNCHANGED <<alVars, configVars, spawnIdx, startupErr, fileState,
                   workerRequestReceiver, workerResponseReceiver,
                   workerVars, trafficVars>>
    /\ UNCHANGED wsVars

\* SIGTERM => { break; } and then Ok(())
SigTerm ==
    /\ supPc = "signal_loop"
    /\ lastSignal' = "SIGTERM"
    /\ ReturnFromRun("Ok")
    /\ UNCHANGED <<alVars, configVars, spawnIdx, startupErr, fileState,
                   workerRequestSenders, workerResponseSenders,
                   workerRequestReceiver, workerResponseReceiver,
                   workerVars, trafficVars>>
    /\ UNCHANGED wsVars

\* the operator replaces the access-list file
EditFile(f) ==
    /\ f # file
    /\ runResult = "None"
    /\ file' = f
    /\ fileState' = IF supPc = "update_access_list" THEN fileState ELSE "changed"
    /\ UNCHANGED <<list, loaderVars, lastCheck, configVars, supPc, spawnIdx, runResult,
                   startupErr, lastSignal, handleVars, workerVars, trafficVars>>
    /\ UNCHANGED wsVars

\* a request worker consults the shared access list for an announce
WorkerAllows(w, info_hash_bytes) ==
    /\ w \in requestWorkers
    /\ lastCheck' = [mode |-> mode,
                     hash |-> info_hash_bytes,
                     view |-> list,
                     ans |-> allows(list, mode, info_hash_bytes),
                     when |-> fileState]
    /\ UNCHANGED <<file, list, loaderVars, supVars, wsVars>>

(***************************************************************************)
(* The workers' traffic over the channels.                                 *)
(***************************************************************************)
\* socket worker j sends a request to request worker i
SocketWorkerSend(j, i) ==
    /\ j \in socketWorkers
    /\ i \in workerRequestSenders[j]
    /\ sent < MaxMsgs
    /\ Len(requestQueue[i]) < MaxQueue
    /\ requestQueue' = [requestQueue EXCEPT ![i] = Append(@, [from |-> j])]
    /\ requestProducers' = [requestProducers EXCEPT ![i] = @ \cup {j}]
    /\ sent' = sent + 1
    /\ UNCHANGED <<alVars, configVars, runVars, handleVars, workerVars,
                   responseQueue, responseProducers>>
    /\ UNCHANGED wsVars

\* request worker i takes a request from its channel and sends the response
\* to the socket worker the request came from
RequestWorkerHandle(i) ==
    /\ i \in requestWorkers
    /\ i \in workerRequestReceiver[i]
    /\ requestQueue[i] # <<>>
    /\ LET j == Head(requestQueue[i]).from
       IN /\ j \in workerResponseSenders[i]
          /\ Len(responseQueue[j]) < MaxQueue
          /\ responseQueue' = [responseQueue EXCEPT ![j] = Append(@, [from |-> i])]
          /\ responseProducers' = [responseProducers EXCEPT ![j] = @ \cup {i}]
    /\ requestQueue' = [requestQueue EXCEPT ![i] = Tail(@)]
    /\ UNCHANGED <<alVars, configVars, runVars, handleVars, workerVars,
                   requestProducers, sent>>
    /\ UNCHANGED wsVars

\* socket worker j takes a response from its channel
SocketWorkerReceive(j) ==
    /\ j \in socketWorkers
    /\ j \in workerResponseReceiver[j]
    /\ responseQueue[j] # <<>>
    /\ responseQueue' = [responseQueue EXCEPT ![j] = Tail(@)]
    /\ UNCHANGED <<alVars, configVars, runVars, handleVars, workerVars,
                   requestQueue, requestProducers, responseProducers, sent>>
    /\ UNCHANGED wsVars

InitLoader ==
    /\ pcLoad = "idle"
    /\ rdIdx = 0
    /\ new_list = {}
    /\ loadResult = "None"
    /\ oldList = list
    /\ okLoads = 0
    /\ lastCheck = NoCheck

InitRun ==
    /\ supPc = "update_access_list"
    /\ spawnIdx = 0
    /\ runResult = "None"
    /\ startupErr = "None"
    /\ lastSignal = "None"
    /\ fileState = "loaded"
    /\ request_senders = {}
    /\ response_senders = {}
    /\ request_receivers = {}
    /\ response_receivers = {}
    /\ requestWorkers = {}
    /\ socketWorkers = {}
    /\ statisticsWorker = FALSE
    /\ workerRequestSenders = [j \in SocketWorkerIndex |-> {}]
    /\ workerResponseSenders = [i \in RequestWorkerIndex |-> {}]
    /\ workerRequestReceiver = [i \in RequestWorkerIndex |-> {}]
    /\ workerResponseReceiver = [j \in SocketWorkerIndex |-> {}]
    /\ requestQueue = [i \in RequestWorkerIndex |-> <<>>]
    /\ responseQueue = [j \in SocketWorkerIndex |-> <<>>]
    /\ requestProducers = [i \in RequestWorkerIndex |-> {}]
    /\ responseProducers = [j \in SocketWorkerIndex |-> {}]
    /\ sent = 0

(***************************************************************************)
(* aquatic_ws: run_socket_worker, its connection table, the in-message     *)
(* channel it sends on and the out-message channel it drains.              *)
(***************************************************************************)
WordMod == 2 ^ WordBits

\* the word of the iteration counter, kept wide enough for the cleaning period
IterMod == 2 ^ IterBits

\* usize::wrapping_add
wrapping_add(x, y) == (x + y) % WordMod

\* usize::wrapping_add on the iteration counter
iter_wrapping_add(x, y) == (x + y) % IterMod

\* the tokens of streams; Token(0) is registered for the listener
StreamTokens == 1..(WordMod - 1)

\* the socket addresses peers connect from
PeerAddrs == {"A", "B"}

\* the addresses the stream-th accepted stream may come from: the streams of
\* the first round of tokens alternate between the two addresses, a stream
\* accepted after the counter has wrapped comes from either, so that a token
\* is reused by a peer of the same address as well as by one of another
AcceptAddrs(stream) ==
    IF stream >= WordMod THEN PeerAddrs
    ELSE IF stream % 2 = 1 THEN {"A"} ELSE {"B"}

\* ValidUntil::new(config.cleaning.max_connection_age) at time t
ValidUntil_new(t) == t + MaxAge

\* Connection::new(valid_until, stream): a connection that has yet to shake hands
Connection_new(valid, stream) ==
    [stream |-> stream, stage |-> "tcp", valid_until |-> valid]

\* remove_connection_if_exists(connections, token)
remove_connection_if_exists(conns, token) ==
    [t \in DOMAIN conns \ {token} |-> conns[t]]

\* HashMap::insert
insert(conns, token, connection) ==
    [t \in DOMAIN conns \cup {token} |-> IF t = token THEN connection ELSE conns[t]]

\* connections.get_mut(&token).and_then(Connection::get_established_ws) is Some
get_established_ws(conns, token) ==
    /\ token \in DOMAIN conns
    /\ conns[token].stage = "established"

\* remove_inactive_connections(connections) at time t
remove_inactive_connections(conns, t) ==
    [tok \in {x \in DOMAIN conns : conns[x].valid_until >= t} |-> conns[tok]]

NoWrite == [n |-> 0, token |-> 0, stream |-> 0, meta_stream |-> 0, result |-> "None"]

\* the budgets of a run of the worker: streams the listener hands out,
\* iterations of the loop, messages read, out-messages produced, and how far
\* the clock goes
NoBudget == [accepts |-> 0, iters |-> 0, reads |-> 0, replies |-> 0, clock |-> 0]

InitWs ==
    /\ use_tls \in BOOLEAN
    /\ connections = <<>>
    /\ poll_token_counter = 0
    /\ iter_counter = 0
    /\ accepted = 0
    /\ peers = <<>>
    /\ lastEvicted = 0
    /\ wsPc = "poll"
    /\ curToken = 0
    /\ now = 0
    /\ valid_until = 0
    /\ iterIndex = 0
    /\ didClean = FALSE
    /\ reads = 0
    /\ inMessages = <<>>
    /\ outMessages = <<>>
    /\ drain = <<>>
    /\ replied = 0
    /\ lastWrite = NoWrite
    /\ wroteThisIter = FALSE
    /\ lastHandshake = "Never"

\* poll.poll(&mut events, Some(poll_timeout)) and ValidUntil::new: time may
\* pass while the worker waits
Poll ==
    /\ wsPc = "poll"
    /\ iterIndex < budget.iters
    /\ \E dt \in 0..1 :
          /\ now + dt <= budget.clock
          /\ now' = now + dt
    /\ valid_until' = ValidUntil_new(now')
    /\ wsPc' = "events"
    /\ wroteThisIter' = FALSE
    /\ UNCHANGED <<use_tls, budget, connections, poll_token_counter, iter_counter,
                   accepted, peers, lastEvicted, curToken, iterIndex, didClean,
                   reads, inMessages, outMessages, drain, replied, lastWrite>>
    /\ UNCHANGED <<lastHandshake, alVars, supVars>>

\* for event in events.iter(): an event of the listener (token 0)
EventListener ==
    /\ wsPc = "events"
    /\ wsPc' = "accept"
    /\ curToken' = 0
    /\ UNCHANGED <<use_tls, budget, connections, poll_token_counter, iter_counter,
                   accepted, peers, lastEvicted, now, valid_until, iterIndex, didClean,
                   reads, inMessages, outMessages, drain, replied, lastWrite,
                   wroteThisIter>>
    /\ UNCHANGED <<lastHandshake, alVars, supVars>>

\* for event in events.iter(): a readable event of a stream token
EventReadable(token) ==
    /\ wsPc = "events"
    /\ wsPc' = "read"
    /\ curToken' = token
    /\ UNCHANGED <<use_tls, budget, connections, poll_token_counter, iter_counter,
                   accepted, peers, lastEvicted, now, valid_until, iterIndex, didClean,
                   reads, inMessages, outMessages, drain, replied, lastWrite,
                   wroteThisIter>>
    /\ UNCHANGED <<lastHandshake, alVars, supVars>>

\* the loop over the events ends; out_message_receiver.drain() takes what the
\* channel holds
EndEvents ==
    /\ wsPc = "events"
    /\ wsPc' = "send_out"
    /\ drain' = outMessages
    /\ outMessages' = <<>>
    /\ UNCHANGED <<use_tls, budget, connections, poll_token_counter, iter_counter,
                   accepted, peers, lastEvicted, curToken, now, valid_until, iterIndex,
                   didClean, reads, inMessages, replied, lastWrite, wroteThisIter>>
    /\ UNCHANGED <<lastHandshake, alVars, supVars>>

\* a mutant of the accept arm that does not skip token 0 when the counter wraps
accept_new_streams_ok_no_skip(addr) ==
    /\ wsPc = "accept"
    /\ accepted < budget.accepts
    /\ addr \in AcceptAddrs(accepted + 1)
    /\ LET token == wrapping_add(poll_token_counter, 1)
           stream == accepted + 1
       IN /\ poll_token_counter' = token
          /\ lastEvicted' = IF token \in DOMAIN connections
                            THEN connections[token].stream ELSE 0
          /\ connections' = insert(remove_connection_if_exists(connections, token),
                                   token, Connection_new(valid_until, stream))
          /\ accepted' = stream
          /\ peers' = Append(peers, addr)
    /\ UNCHANGED <<use_tls, budget, iter_counter, wsPc, curToken, now, valid_until,
                   iterIndex, didClean, reads, inMessages, outMessages, drain, replied,
                   lastWrite, wroteThisIter>>
    /\ UNCHANGED <<lastHandshake, alVars, supVars>>

\* accept_new_streams, one iteration of its loop with listener.accept() = Ok
\* of a stream whose peer has the address addr
accept_new_streams_ok(addr) ==
    /\ wsPc = "accept"
    /\ accepted < budget.accepts
    /\ addr \in AcceptAddrs(accepted + 1)
    /\ LET next == wrapping_add(poll_token_counter, 1)
           token == IF next = 0 THEN 1 ELSE next
           stream == accepted + 1
       IN /\ poll_token_counter' = token
          /\ lastEvicted' = IF token \in DOMAIN connections
                            THEN connections[token].stream ELSE 0
          /\ connections' = insert(remove_connection_if_exists(connections, token),
                                   token, Connection_new(valid_until, stream))
          /\ accepted' = stream
          /\ peers' = Append(peers, addr)
    /\ UNCHANGED <<use_tls, budget, iter_counter, wsPc, curToken, now, valid_until,
                   iterIndex, didClean, reads, inMessages, outMessages, drain, replied,
                   lastWrite, wroteThisIter>>
    /\ UNCHANGED <<lastHandshake, alVars, supVars>>

\* accept_new_streams, one iteration with listener.accept() = Err: WouldBlock
\* leaves the loop, any other error is printed and the loop goes on
accept_new_streams_err(would_block) ==
    /\ wsPc = "accept"
    /\ wsPc' = IF would_block THEN "events" ELSE "accept"
    /\ UNCHANGED <<use_tls, budget, connections, poll_token_counter, iter_counter,
                   accepted, peers, lastEvicted, curToken, now, valid_until, iterIndex,
                   didClean, reads, inMessages, outMessages, drain, replied, lastWrite,
                   wroteThisIter>>
    /\ UNCHANGED <<lastHandshake, alVars, supVars>>

\* the stage a successful handshake step leads to
next_stage(stage, tls) ==
    CASE stage = "tcp" -> IF tls THEN "tls" ELSE "ws"
      [] stage = "tls" -> "ws"
      [] stage = "ws" -> "established"

\* the ConnectionMeta and the in-message sent for the message read from the
\* connection under token: seq numbers the messages in the order of reading
in_message(conns, token, seq) ==
    [poll_token |-> token,
     peer_addr |-> peers[conns[token].stream],
     stream |-> conns[token].stream,
     seq |-> seq]

\* a mutant that puts the in-message in front of those already sent
read_established_lifo(result) ==
    /\ wsPc = "read"
    /\ get_established_ws(connections, curToken)
    /\ CASE result \in {"Ok", "OkOther"} ->
                /\ reads < budget.reads
                /\ reads' = reads + 1
                /\ inMessages' =
                     IF result = "Ok"
                     THEN <<in_message(connections, curToken, reads + 1)>> \o inMessages
                     ELSE inMessages
                /\ UNCHANGED <<connections, wsPc>>
         [] result = "WouldBlock" ->
                /\ wsPc' = "events"
                /\ UNCHANGED <<connections, reads, inMessages>>
         [] result = "Err" ->
                /\ connections' = remove_connection_if_exists(connections, curToken)
                /\ wsPc' = "events"
                /\ UNCHANGED <<reads, inMessages>>
    /\ UNCHANGED <<use_tls, budget, poll_token_counter, iter_counter, accepted, peers,
                   lastEvicted, curToken, now, valid_until, iterIndex, didClean,
                   outMessages, drain, replied, lastWrite, wroteThisIter>>
    /\ UNCHANGED <<lastHandshake, alVars, supVars>>

\* run_handshakes_and_read_messages, one iteration of its loop on an
\* established connection: read_message gives a message that is an in-message
\* ("Ok": it is sent on the channel) or one that is none ("OkOther"), and the
\* loop goes on; WouldBlock (break); another error (remove the connection,
\* break)
read_established(result) ==
    /\ wsPc = "read"
    /\ get_established_ws(connections, curToken)
    /\ CASE result \in {"Ok", "OkOther"} ->
                /\ reads < budget.reads
                /\ reads' = reads + 1
                /\ inMessages' =
                     IF result = "Ok"
                     THEN Append(inMessages, in_message(connections, curToken, reads + 1))
                     ELSE inMessages
                /\ UNCHANGED <<connections, wsPc>>
         [] result = "WouldBlock" ->
                /\ wsPc' = "events"
                /\ UNCHANGED <<connections, reads, inMessages>>
         [] result = "Err" ->
                /\ connections' = remove_connection_if_exists(connections, curToken)
                /\ wsPc' = "events"
                /\ UNCHANGED <<reads, inMessages>>
    /\ UNCHANGED <<use_tls, budget, poll_token_counter, iter_counter, accepted, peers,
                   lastEvicted, curToken, now, valid_until, iterIndex, didClean,
                   outMessages, drain, replied, lastWrite, wroteThisIter>>
    /\ UNCHANGED <<lastHandshake, alVars, supVars>>

\* a mutant that looks the connection up without taking it out of the table,
\* so that a step without a successor leaves the old connection in place
advance_handshake_keep_on_none(result, stop_loop) ==
    /\ wsPc = "read"
    /\ curToken \in DOMAIN connections
    /\ connections[curToken].stage # "established"
    /\ LET connection == connections[curToken]
           removed == remove_connection_if_exists(connections, curToken)
       IN CASE result = "Ok" ->
                /\ ~stop_loop
                /\ connections' =
                     insert(removed, curToken,
                            [connection EXCEPT !.stage = next_stage(@, use_tls),
                                               !.valid_until = valid_until])
                /\ lastHandshake' = "Some"
                /\ UNCHANGED wsPc
            [] result = "WouldBlock" ->
                /\ stop_loop
                /\ connections' =
                     insert(removed, curToken,
                            [connection EXCEPT !.valid_until = valid_until])
                /\ lastHandshake' = "Some"
                /\ wsPc' = "events"
            [] result = "Err" ->
                /\ connections' = connections
                /\ lastHandshake' = "None"
                /\ wsPc' = IF stop_loop THEN "events" ELSE "read"
    /\ UNCHANGED <<use_tls, budget, poll_token_counter, iter_counter, accepted, peers,
                   lastEvicted, curToken, now, valid_until, iterIndex, didClean,
                   reads, inMessages, outMessages, drain, replied, lastWrite,
                   wroteThisIter>>
    /\ UNCHANGED <<alVars, supVars>>

\* one iteration on a connection that is not established: it is removed,
\* advance_handshakes(opt_tls_acceptor, valid_until) runs one step and the
\* successor, if any, is inserted
advance_handshake(result, stop_loop) ==
    /\ wsPc = "read"
    /\ curToken \in DOMAIN connections
    /\ connections[curToken].stage # "established"
    /\ LET connection == connections[curToken]
           removed == remove_connection_if_exists(connections, curToken)
       IN CASE result = "Ok" ->
                /\ ~stop_loop
                /\ connections' =
                     insert(removed, curToken,
                            [connection EXCEPT !.stage = next_stage(@, use_tls),
                                               !.valid_until = valid_until])
                /\ lastHandshake' = "Some"
                /\ UNCHANGED wsPc
            [] result = "WouldBlock" ->
                /\ stop_loop
                /\ connections' =
                     insert(removed, curToken,
                            [connection EXCEPT !.valid_until = valid_until])
                /\ lastHandshake' = "Some"
                /\ wsPc' = "events"
            [] result = "Err" ->
                /\ connections' = removed
                /\ lastHandshake' = "None"
                /\ wsPc' = IF stop_loop THEN "events" ELSE "read"
    /\ UNCHANGED <<use_tls, budget, poll_token_counter, iter_counter, accepted, peers,
                   lastEvicted, curToken, now, valid_until, iterIndex, didClean,
                   reads, inMessages, outMessages, drain, replied, lastWrite,
                   wroteThisIter>>
    /\ UNCHANGED <<alVars, supVars>>

\* one iteration when the table has no entry for the token: neither branch
\* of the loop body is taken and nothing leaves the loop
read_absent ==
    /\ wsPc = "read"
    /\ curToken \notin DOMAIN connections
    /\ UNCHANGED vars

\* a mutant that leaves the connection in the table when the write fails
send_out_message_keep_on_err(result) ==
    /\ wsPc = "send_out"
    /\ drain # <<>>
    /\ drain' = Tail(drain)
    /\ LET meta == Head(drain)
           token == meta.poll_token
       IN IF get_established_ws(connections, token)
             /\ peers[connections[token].stream] = meta.peer_addr
          THEN /\ lastWrite' = [n |-> lastWrite.n + 1,
                                token |-> token,
                                stream |-> connections[token].stream,
                                meta_stream |-> meta.stream,
                                result |-> result]
               /\ wroteThisIter' = TRUE
               /\ connections' = connections
          ELSE /\ result = "Ok"
               /\ UNCHANGED <<lastWrite, wroteThisIter, connections>>
    /\ UNCHANGED <<use_tls, budget, poll_token_counter, iter_counter, accepted, peers,
                   lastEvicted, wsPc, curToken, now, valid_until, iterIndex, didClean,
                   reads, inMessages, outMessages, replied>>
    /\ UNCHANGED <<lastHandshake, alVars, supVars>>

\* a mutant that finds the connection by the token alone
send_out_message_token_only(result) ==
    /\ wsPc = "send_out"
    /\ drain # <<>>
    /\ drain' = Tail(drain)
    /\ LET meta == Head(drain)
           token == meta.poll_token
       IN IF get_established_ws(connections, token)
          THEN /\ lastWrite' = [n |-> lastWrite.n + 1,
                                token |-> token,
                                stream |-> connections[token].stream,
                                meta_stream |-> meta.stream,
                                result |-> result]
               /\ wroteThisIter' = TRUE
               /\ connections' =
                    IF result = "Err"
                    THEN remove_connection_if_exists(connections, token)
                    ELSE connections
          ELSE /\ result = "Ok"
               /\ UNCHANGED <<lastWrite, wroteThisIter, connections>>
    /\ UNCHANGED <<use_tls, budget, poll_token_counter, iter_counter, accepted, peers,
                   lastEvicted, wsPc, curToken, now, valid_until, iterIndex, didClean,
                   reads, inMessages, outMessages, replied>>
    /\ UNCHANGED <<lastHandshake, alVars, supVars>>

\* send_out_messages, one iteration of its loop: the message is written when
\* the table holds an established connection under its token whose peer
\* address is the one of its meta; WouldBlock and Ok leave the table alone,
\* another error removes the connection
send_out_message(result) ==
    /\ wsPc = "send_out"
    /\ drain # <<>>
    /\ drain' = Tail(drain)
    /\ LET meta == Head(drain)
           token == meta.poll_token
       IN IF get_established_ws(connections, token)
             /\ peers[connections[token].stream] = meta.peer_addr
          THEN /\ lastWrite' = [n |-> lastWrite.n + 1,
                                token |-> token,
                                stream |-> connections[token].stream,
                                meta_stream |-> meta.stream,
                                result |-> result]
               /\ wroteThisIter' = TRUE
               /\ connections' =
                    IF result = "Err"
                    THEN remove_connection_if_exists(connections, token)
                    ELSE connections
          ELSE /\ result = "Ok"
               /\ UNCHANGED <<lastWrite, wroteThisIter, connections>>
    /\ UNCHANGED <<use_tls, budget, poll_token_counter, iter_counter, accepted, peers,
                   lastEvicted, wsPc, curToken, now, valid_until, iterIndex, didClean,
                   reads, inMessages, outMessages, replied>>
    /\ UNCHANGED <<lastHandshake, alVars, supVars>>

\* send_out_messages returns when the drain is exhausted
send_out_done ==
    /\ wsPc = "send_out"
    /\ drain = <<>>
    /\ wsPc' = "clean"
    /\ UNCHANGED <<use_tls, budget, connections, poll_token_counter, iter_counter,
                   accepted, peers, lastEvicted, curToken, now, valid_until, iterIndex,
                   didClean, reads, inMessages, outMessages, drain, replied, lastWrite,
                   wroteThisIter>>
    /\ UNCHANGED <<lastHandshake, alVars, supVars>>

\* a mutant whose iteration counter skips 0 when it wraps, as the token
\* counter does
clean_and_count_skip_zero ==
    /\ wsPc = "clean"
    /\ IF iter_counter % CleanPeriod = 0
       THEN /\ connections' = remove_inactive_connections(connections, now)
            /\ didClean' = TRUE
       ELSE /\ UNCHANGED connections
            /\ didClean' = FALSE
    /\ iter_counter' = IF iter_wrapping_add(iter_counter, 1) = 0 THEN 1
                       ELSE iter_wrapping_add(iter_counter, 1)
    /\ iterIndex' = iterIndex + 1
    /\ wsPc' = "poll"
    /\ UNCHANGED <<use_tls, budget, poll_token_counter, accepted, peers, lastEvicted,
                   curToken, now, valid_until, reads, inMessages, outMessages, drain,
                   replied, lastWrite, wroteThisIter>>
    /\ UNCHANGED <<lastHandshake, alVars, supVars>>

\* if iter_counter % 128 == 0 { remove_inactive_connections(&mut connections) }
\* iter_counter = iter_counter.wrapping_add(1)
clean_and_count ==
    /\ wsPc = "clean"
    /\ IF iter_counter % CleanPeriod = 0
       THEN /\ connections' = remove_inactive_connections(connections, now)
            /\ didClean' = TRUE
       ELSE /\ UNCHANGED connections
            /\ didClean' = FALSE
    /\ iter_counter' = iter_wrapping_add(iter_counter, 1)
    /\ iterIndex' = iterIndex + 1
    /\ wsPc' = "poll"
    /\ UNCHANGED <<use_tls, budget, poll_token_counter, accepted, peers, lastEvicted,
                   curToken, now, valid_until, reads, inMessages, outMessages, drain,
                   replied, lastWrite, wroteThisIter>>
    /\ UNCHANGED <<lastHandshake, alVars, supVars>>

\* the request side answers the k-th in-message: the out-message carries the
\* ConnectionMeta of the in-message.  The worker looks at the channel only
\* when it drains it, so an out-message produced at any moment of an
\* iteration is one produced while the events are handled.
request_side_reply(k) ==
    /\ wsPc = "events"
    /\ k \in 1..Len(inMessages)
    /\ replied < budget.replies
    /\ replied' = replied + 1
    /\ outMessages' = Append(outMessages,
                             [poll_token |-> inMessages[k].poll_token,
                              peer_addr |-> inMessages[k].peer_addr,
                              stream |-> inMessages[k].stream])
    /\ UNCHANGED <<use_tls, budget, connections, poll_token_counter, iter_counter,
                   accepted, peers, lastEvicted, wsPc, curToken, now, valid_until,
                   iterIndex, didClean, reads, inMessages, drain, lastWrite,
                   wroteThisIter>>
    /\ UNCHANGED <<lastHandshake, alVars, supVars>>

IoResults == {"Ok", "WouldBlock", "Err"}

ReadResults == {"Ok", "OkOther", "WouldBlock", "Err"}

\* what the worker starts from, the rest of the program left aside
InitWorkerAlone ==
    /\ file = NoFile
    /\ list = {}
    /\ mode = "Ignore"
    /\ statsActive = FALSE
    /\ InitLoader
    /\ InitRun
    /\ InitWs

(***************************************************************************)
(* The WebSocket socket worker and its table of connections: one iteration *)
(* of the loop in which streams are accepted until the token counter wraps,*)
(* shaken hands with, and one message is read and answered.                *)
(***************************************************************************)
InitSocketWorker ==
    /\ InitWorkerAlone
    /\ budget = [accepts |-> MaxStreams, iters |-> 1, reads |-> 1,
                 replies |-> 1, clock |-> 0]

NextWs ==
    \/ Poll
    \/ EventListener
    \/ \E t \in StreamTokens : EventReadable(t)
    \/ EndEvents
    \/ \E a \in PeerAddrs : accept_new_streams_ok(a)
    \/ \E b \in BOOLEAN : accept_new_streams_err(b)
    \/ \E r \in ReadResults : read_established(r)
    \/ \E r \in IoResults, b \in BOOLEAN :
            advance_handshake(r, b)
    \/ read_absent
    \/ \E r \in IoResults : send_out_message(r)
    \/ send_out_done
    \/ clean_and_count
    \/ \E k \in 1..MaxIn : request_side_reply(k)

SpecWs == InitSocketWorker /\ [][NextWs]_vars

\* the same worker, scheduled: its thread takes a step whenever it has one
\* that changes the state
SpecWsFair == InitSocketWorker /\ [][NextWs]_vars /\ WF_vars(NextWs)

(***************************************************************************)
(* The WebSocket socket worker and its messages: a few iterations of the   *)
(* loop, the clock ticking once, with two streams whose messages are       *)
(* read, answered by the request side and written back.                    *)
(***************************************************************************)
InitWsMsg ==
    /\ InitWorkerAlone
    /\ budget = [accepts |-> 2, iters |-> MaxIters, reads |-> MaxIn,
                 replies |-> MaxOut, clock |-> 1]

SpecWsMsg == InitWsMsg /\ [][NextWs]_vars

(***************************************************************************)
(* The WebSocket socket worker over a long run: iterations of the loop     *)
(* until the iteration counter has wrapped, time passing, with one stream  *)
(* that is accepted at any iteration and then stays silent.                *)
(***************************************************************************)
InitWsLongRun ==
    /\ InitWorkerAlone
    /\ budget = [accepts |-> 1, iters |-> IterMod + 2, reads |-> 0,
                 replies |-> 0, clock |-> MaxTime]

NextWsLongRun ==
    \/ Poll
    \/ EventListener
    \/ EndEvents
    \/ \E a \in PeerAddrs : accept_new_streams_ok(a)
    \/ \E b \in BOOLEAN : accept_new_streams_err(b)
    \/ send_out_done
    \/ clean_and_count

SpecWsLongRun == InitWsLongRun /\ [][NextWsLongRun]_vars

(***************************************************************************)
(* The supervisor with the access list: any configuration, the file        *)
(* edited at any time, request workers consulting the list.                *)
(***************************************************************************)
InitSup ==
    /\ file \in EditFiles
    /\ list = {}
    /\ mode \in AccessListMode
    /\ statsActive \in BOOLEAN
    /\ InitLoader
    /\ InitRun
    /\ InitWs
    /\ use_tls = FALSE
    /\ budget = NoBudget

NextSup ==
    \/ RunUpdateAccessList
    \/ RunSignalsNew
    \/ RunCreateChannels
    \/ RunSpawnRequestWorker
    \/ RunSpawnSocketWorker
    \/ RunSpawnStatisticsWorker
    \/ SigUsr1
    \/ SigTerm
    \/ \E f \in EditFiles : EditFile(f)
    \/ \E w \in RequestWorkerIndex, h \in Hashes : WorkerAllows(w, h)

SpecSup == InitSup /\ [][NextSup]_vars

(***************************************************************************)
(* The supervisor with the channel fabric: the default access-list         *)
(* configuration (mode ignore, no file), workers exchanging messages.      *)
(***************************************************************************)
InitFabric ==
    /\ file = NoFile
    /\ list = {}
    /\ mode = "Ignore"
    /\ statsActive \in BOOLEAN
    /\ InitLoader
    /\ InitRun
    /\ InitWs
    /\ use_tls = FALSE
    /\ budget = NoBudget

NextFabric ==
    \/ RunUpdateAccessList
    \/ RunSignalsNew
    \/ RunCreateChannels
    \/ RunSpawnRequestWorker
    \/ RunSpawnSocketWorker
    \/ RunSpawnStatisticsWorker
    \/ SigUsr1
    \/ SigTerm
    \/ \E j \in SocketWorkerIndex, i \in RequestWorkerIndex :
            SocketWorkerSend(j, i)
    \/ \E i \in RequestWorkerIndex : RequestWorkerHandle(i)
    \/ \E j \in SocketWorkerIndex : SocketWorkerReceive(j)

SpecFabric == InitFabric /\ [][NextFabric]_vars

(***************************************************************************)
(* The access list on its own: one writer running update_from_path on a    *)
(* file, readers calling allows at any moment.                             *)
(***************************************************************************)
InitAL ==
    /\ file \in Files
    /\ list \in SUBSET {HashA, HashB}
    /\ mode = "Ignore"
    /\ statsActive = FALSE
    /\ InitLoader
    /\ InitRun
    /\ InitWs
    /\ use_tls = FALSE
    /\ budget = NoBudget

NextAL ==
    \/ update_from_path_open
    \/ update_from_path_line
    \/ update_from_path_install
    \/ \E m \in AccessListMode, h \in Hashes : allows_call(m, h)

SpecAL == InitAL /\ [][NextAL]_vars

(***************************************************************************)
(* What a file denotes, computed apart from the loader.                    *)
(***************************************************************************)
HexDigitChars == Range(DecDigits) \cup Range(LowerDigits) \cup Range(UpperDigits)
LowerHexDigitChars == Range(DecDigits) \cup Range(LowerDigits)

\* 40 hex digits of either case
HexLine(line) ==
    /\ Len(line) = 2 * HashLen
    /\ \A i \in 1..Len(line) : line[i] \in HexDigitChars

\* 40 lowercase hex digits
LowerHexLine(line) ==
    /\ Len(line) = 2 * HashLen
    /\ \A i \in 1..Len(line) : line[i] \in LowerHexDigitChars

FileOk(f) == f.exists /\ \A i \in 1..Len(f.lines) : HexLine(f.lines[i])

FileSet(f) == {parse_info_hash(f.lines[i]).bytes : i \in 1..Len(f.lines)}

AllowsCallStep == \E m \in AccessListMode, h \in Hashes : allows_call(m, h)

(***************************************************************************)
(* C1: a reload is atomic.  Every call of allows reads either the set      *)
(* held when the running update_from_path started or the complete set of   *)
(* the file, and its answer is the answer for that set; the shared set     *)
(* changes only in the one step that installs the complete new set.        *)
(***************************************************************************)
C1_AtomicReload ==
    [][ /\ AllowsCallStep =>
            /\ \/ lastCheck'.view = oldList
               \/ FileOk(file) /\ lastCheck'.view = FileSet(file)
            /\ lastCheck'.ans = allows(lastCheck'.view, lastCheck'.mode, lastCheck'.hash)
        /\ list' # list =>
            /\ FileOk(file)
            /\ list = oldList
            /\ list' = FileSet(file) ]_alVars

\* a reader was answered while the loader held a partly built set
C1_Witness ==
    /\ pcLoad = "lines"
    /\ rdIdx = 1
    /\ lastCheck.when = "loading"
    /\ FileOk(file)
    /\ oldList # {}
    /\ oldList # FileSet(file)
    /\ new_list \notin {oldList, FileSet(file)}
    /\ lastCheck.view = oldList

(***************************************************************************)
(* C5: in mode ignore allows answers true for every info hash and every    *)
(* content of the set.                                                     *)
(***************************************************************************)
C5_IgnoreAllowsAll ==
    /\ lastCheck.mode = "Ignore" => lastCheck.ans = TRUE
    /\ \A h \in Hashes : allows(list, "Ignore", h)

\* ignore answered true for a hash that a non-empty set does not hold
C5_Witness ==
    /\ lastCheck.mode = "Ignore"
    /\ lastCheck.view # {}
    /\ lastCheck.hash \notin lastCheck.view
    /\ lastCheck.ans = TRUE

(***************************************************************************)
(* C6: require answers true exactly for the hashes of the set, forbid      *)
(* exactly for the others, so the two answers are always opposite.         *)
(***************************************************************************)
C6_RequireForbidOpposite ==
    /\ lastCheck.mode = "Require" => (lastCheck.ans <=> lastCheck.hash \in lastCheck.view)
    /\ lastCheck.mode = "Forbid" => (lastCheck.ans <=> lastCheck.hash \notin lastCheck.view)
    /\ \A h \in Hashes : allows(list, "Require", h) # allows(list, "Forbid", h)

\* forbid refused a hash of the set
C6_Witness ==
    /\ lastCheck.mode = "Forbid"
    /\ lastCheck.hash \in lastCheck.view
    /\ lastCheck.ans = FALSE

(***************************************************************************)
(* C7 as stated: a file is accepted only when every line is 40 lowercase   *)
(* hex digits.                                                             *)
(***************************************************************************)
C7_OnlyLowercaseAccepted ==
    loadResult = "Ok" => \A i \in 1..Len(file.lines) : LowerHexLine(file.lines[i])

(***************************************************************************)
(* C7 amended: a file is accepted only when every line is 40 hex digits,   *)
(* of either case.  parse_info_hash succeeds on the 40 digits of the unit  *)
(* test and fails on the line that is too long, too short, empty or holds  *)
(* a byte that is no hex digit; update_from_path returns an error at the   *)
(* first line that fails to parse, reading no line after it.               *)
(***************************************************************************)
C7_MalformedLineRejected ==
    /\ parse_info_hash(TestHex).ok
    /\ ~parse_info_hash(LineTooLong).ok
    /\ ~parse_info_hash(LineTooShort).ok
    /\ ~parse_info_hash(LineEmpty).ok
    /\ ~parse_info_hash(LineNonHex).ok
    /\ ~parse_info_hash(LineOUml).ok
    /\ loadResult = "Ok" => FileOk(file)
    /\ (pcLoad = "lines" \/ loadResult = "Ok") =>
            \A i \in 1..rdIdx : HexLine(file.lines[i])
    /\ (loadResult = "Err" /\ file.exists) =>
            /\ rdIdx >= 1
            /\ ~HexLine(file.lines[rdIdx])
            /\ \A i \in 1..(rdIdx - 1) : HexLine(file.lines[i])

\* a load failed at the second line after the first line had parsed
C7_Witness ==
    /\ loadResult = "Err"
    /\ pcLoad = "idle"
    /\ rdIdx = 2
    /\ HexLine(file.lines[1])
    /\ ~HexLine(file.lines[2])

(***************************************************************************)
(* C8: reload is idempotent.  A successful update_from_path leaves exactly *)
(* the set of the file, whatever the set held before, so a further         *)
(* successful call on the unchanged file changes no answer of allows.      *)
(***************************************************************************)
C8_ReloadIdempotent ==
    [][ (pcLoad = "lines" /\ pcLoad' = "idle" /\ loadResult' = "Ok") =>
            /\ list' = FileSet(file)
            /\ okLoads >= 1 =>
                  /\ list' = list
                  /\ \A m \in AccessListMode, h \in Hashes :
                        allows(list', m, h) = allows(list, m, h) ]_alVars

\* a second load of the same file has returned Ok
C8_Witness ==
    /\ okLoads >= 2
    /\ loadResult = "Ok"
    /\ list = FileSet(file)
    /\ list # {}

(***************************************************************************)
(* C2 as stated: R*S request channels and S*R response channels, and no    *)
(* channel on which two workers have sent.                                 *)
(***************************************************************************)
C2_ChannelPerPair ==
    /\ (supPc = "spawn_request" /\ spawnIdx = 0) =>
            /\ Cardinality(request_senders) = NumRequestWorkers * NumSocketWorkers
            /\ Cardinality(response_senders) = NumSocketWorkers * NumRequestWorkers
    /\ \A i \in RequestWorkerIndex : Cardinality(requestProducers[i]) <= 1
    /\ \A j \in SocketWorkerIndex : Cardinality(responseProducers[j]) <= 1

(***************************************************************************)
(* C2 amended: one request channel for each request worker and one         *)
(* response channel for each socket worker (R + S channels).  Every socket *)
(* worker holds a sender of every request channel and every request worker *)
(* a sender of every response channel, so a channel has at most one        *)
(* consumer and as producers the workers of the other kind.                *)
(***************************************************************************)
C2_ChannelPerWorker ==
    /\ supPc \in {"spawn_request", "spawn_socket", "spawn_statistics", "signal_loop"} =>
            /\ request_senders = RequestWorkerIndex
            /\ response_senders = SocketWorkerIndex
    /\ \A j \in socketWorkers : workerRequestSenders[j] = RequestWorkerIndex
    /\ \A i \in requestWorkers : workerResponseSenders[i] = SocketWorkerIndex
    /\ \A i \in RequestWorkerIndex :
            /\ requestProducers[i] \subseteq socketWorkers
            /\ Cardinality({w \in RequestWorkerIndex : i \in workerRequestReceiver[w]}) <= 1
    /\ \A j \in SocketWorkerIndex :
            /\ responseProducers[j] \subseteq requestWorkers
            /\ Cardinality({w \in SocketWorkerIndex : j \in workerResponseReceiver[w]}) <= 1

\* two socket workers have sent on one request channel and two request
\* workers on one response channel
C2_Witness ==
    /\ \E i \in RequestWorkerIndex : Cardinality(requestProducers[i]) >= 2
    /\ \E j \in SocketWorkerIndex : Cardinality(responseProducers[j]) >= 2

(***************************************************************************)
(* C3 as stated, its first half: once run has returned on SIGTERM every    *)
(* request channel is closed, that is, no sender of it is left.            *)
(***************************************************************************)
C3_SigtermClosesInbound ==
    runResult = "Ok" =>
        \A i \in RequestWorkerIndex :
            /\ i \notin request_senders
            /\ \A j \in SocketWorkerIndex : i \notin workerRequestSenders[j]

(***************************************************************************)
(* C3 amended: on SIGTERM run leaves its signal loop and returns Ok; it    *)
(* closes no channel (with at least one socket worker every request        *)
(* channel keeps a sender held by a socket worker, and every response      *)
(* channel one held by a request worker), stops no worker and leaves the   *)
(* queued requests and responses where they are.                           *)
(***************************************************************************)
C3_SigtermOnlyReturns ==
    [][ SigTerm =>
            /\ runResult' = "Ok"
            /\ UNCHANGED <<trafficVars, workerVars>>
            /\ \A i \in RequestWorkerIndex :
                    \E j \in socketWorkers' : i \in workerRequestSenders'[j]
            /\ \A j \in SocketWorkerIndex :
                    \E i \in requestWorkers' : j \in workerResponseSenders'[i] ]_vars

\* run has returned on SIGTERM while a request and a response were queued
C3_Witness ==
    /\ runResult = "Ok"
    /\ lastSignal = "SIGTERM"
    /\ \E i \in RequestWorkerIndex : requestQueue[i] # <<>>
    /\ \E j \in SocketWorkerIndex : responseQueue[j] # <<>>

WorkerAllowsStep == \E w \in RequestWorkerIndex, h \in Hashes : WorkerAllows(w, h)

(***************************************************************************)
(* C4: handling SIGUSR1 calls update_access_list once and stays in the     *)
(* signal loop with every worker running; when the list is in use and the  *)
(* file is well formed the set becomes the set of the file, and every      *)
(* allows check made after a SIGUSR1 that followed a change of the file is *)
(* answered as the set of the file answers.                                *)
(***************************************************************************)
C4_ReloadOnSigusr1 ==
    [][ /\ SigUsr1 =>
            /\ supPc' = "signal_loop"
            /\ runResult' = "None"
            /\ UNCHANGED workerVars
            /\ (mode # "Ignore" /\ FileOk(file)) => list' = FileSet(file)
        /\ (WorkerAllowsStep /\ fileState = "reloaded" /\ FileOk(file)) =>
            lastCheck'.ans = allows(FileSet(file), mode, lastCheck'.hash) ]_vars

\* after a second SIGUSR1-triggered reload of a changed file a worker's check
\* in mode require allowed a hash of the new file
C4_Witness ==
    /\ supPc = "signal_loop"
    /\ lastSignal = "SIGUSR1"
    /\ fileState = "reloaded"
    /\ mode = "Require"
    /\ FileOk(file)
    /\ list = FileSet(file)
    /\ lastCheck.when = "reloaded"
    /\ lastCheck.view = list
    /\ lastCheck.hash \in list
    /\ lastCheck.ans = TRUE

AcceptStep == accepted' = accepted + 1

(***************************************************************************)
(* C10: every accept moves the token counter on by one, from the largest   *)
(* word value to 1 and never to 0, and leaves under the new token exactly  *)
(* the newly accepted stream, an older connection under that token being   *)
(* removed and every other entry kept; no connection is ever stored under  *)
(* token 0 and no stream under two tokens.                                 *)
(***************************************************************************)
C10_AcceptTokens ==
    [][ /\ AcceptStep =>
            /\ poll_token_counter' =
                 IF poll_token_counter = WordMod - 1 THEN 1 ELSE poll_token_counter + 1
            /\ poll_token_counter' # 0
            /\ DOMAIN connections' = DOMAIN connections \cup {poll_token_counter'}
            /\ connections'[poll_token_counter'].stream = accepted'
            /\ \A t \in DOMAIN connections \ {poll_token_counter'} :
                    connections'[t] = connections[t]
            /\ lastEvicted' =
                 IF poll_token_counter' \in DOMAIN connections
                 THEN connections[poll_token_counter'].stream ELSE 0
        /\ 0 \notin DOMAIN connections'
        /\ \A t, u \in DOMAIN connections' :
                connections'[t].stream = connections'[u].stream => t = u ]_vars

\* the counter has wrapped: the stream accepted after the one with the largest
\* token has token 1 and has evicted the first stream from the table
C10_Witness ==
    /\ accepted = WordMod
    /\ poll_token_counter = 1
    /\ 1 \in DOMAIN connections
    /\ connections[1].stream = accepted
    /\ lastEvicted = 1

(***************************************************************************)
(* C18: a failed load leaves the access list unchanged.  The step in which *)
(* update_from_path returns an error (the file does not open, a line is    *)
(* not readable text, a line does not parse) leaves the set as it was, and *)
(* that set is the one held when the call started, so every answer of      *)
(* allows is as before the call.                                           *)
(***************************************************************************)
C18_FailedLoadKeepsList ==
    [][ /\ (update_from_path_open /\ ~file.exists) =>
            /\ loadResult' = "Err"
            /\ list' = list
        /\ (pcLoad = "lines" /\ pcLoad' = "idle" /\ loadResult' = "Err") =>
            /\ list' = list
            /\ list' = oldList
            /\ \A m \in AccessListMode, h \in Hashes :
                    allows(list', m, h) = allows(oldList, m, h) ]_alVars

\* a load failed at an unreadable second line after the first line had
\* parsed into the local set, and the set held before is still there
C18_Witness ==
    /\ loadResult = "Err"
    /\ pcLoad = "idle"
    /\ rdIdx = 2
    /\ file.lines[2] = LineBadUtf8
    /\ new_list # {}
    /\ list # {}
    /\ list # new_list
    /\ list = oldList

(***************************************************************************)
(* C19: a failed live reload is not fatal.  When the update_access_list    *)
(* of a SIGUSR1 fails, run stays in its signal loop (where SIGUSR1 and     *)
(* SIGTERM are handled), has returned nothing, has recorded no error and   *)
(* has stopped no worker, and the set is the one held before; and in the   *)
(* mode that does not use the list, update_access_list, at start-up or on  *)
(* SIGUSR1, leaves the set as it is.                                       *)
(***************************************************************************)
C19_FailedReloadNotFatal ==
    [][ /\ (SigUsr1 /\ ~update_access_list(mode, file, list).ok) =>
            /\ supPc' = "signal_loop"
            /\ runResult' = "None"
            /\ startupErr' = "None"
            /\ UNCHANGED <<workerVars, handleVars, trafficVars>>
            /\ list' = list
        /\ ((SigUsr1 \/ RunUpdateAccessList) /\ mode = "Ignore") =>
            /\ list' = list
            /\ runResult' = "None" ]_vars

\* a SIGUSR1 met a malformed file: run is in its loop with the set of the
\* last good load and all its workers
C19_Witness ==
    /\ lastSignal = "SIGUSR1"
    /\ fileState = "reloaded"
    /\ mode = "Require"
    /\ file.exists
    /\ ~FileOk(file)
    /\ list # {}
    /\ supPc = "signal_loop"
    /\ runResult = "None"
    /\ requestWorkers = RequestWorkerIndex
    /\ socketWorkers = SocketWorkerIndex

(***************************************************************************)
(* C20: every receiver is owned by exactly one worker.  A spawned request  *)
(* worker i holds the receiver of request channel i and of no other, a     *)
(* spawned socket worker j that of response channel j and of no other; a   *)
(* receiver handed to its worker is no longer in run's map and one not yet *)
(* handed over is held by no worker, so no channel has two consumers.      *)
(***************************************************************************)
C20_ReceiverOwnedByOneWorker ==
    /\ \A i \in RequestWorkerIndex :
            /\ workerRequestReceiver[i] = IF i \in requestWorkers THEN {i} ELSE {}
            /\ i \in requestWorkers => i \notin request_receivers
            /\ \A w \in RequestWorkerIndex : i \in workerRequestReceiver[w] => w = i
    /\ \A j \in SocketWorkerIndex :
            /\ workerResponseReceiver[j] = IF j \in socketWorkers THEN {j} ELSE {}
            /\ j \in socketWorkers => j \notin response_receivers
            /\ \A w \in SocketWorkerIndex : j \in workerResponseReceiver[w] => w = j
    /\ supPc \in {"spawn_statistics", "signal_loop"} =>
            /\ request_receivers = {}
            /\ response_receivers = {}

\* all workers run, the maps are empty, and the last socket worker has taken
\* a response that a request worker sent on its channel
C20_Witness ==
    /\ supPc = "signal_loop"
    /\ requestWorkers = RequestWorkerIndex
    /\ socketWorkers = SocketWorkerIndex
    /\ request_receivers = {}
    /\ response_receivers = {}
    /\ responseProducers[NumSocketWorkers - 1] # {}
    /\ responseQueue[NumSocketWorkers - 1] = <<>>

\* a message was read from an established connection
ReadMessageStep == \E r \in {"Ok", "OkOther"} : read_established(r)

(***************************************************************************)
(* C11: a connection is refreshed on every successful read.  After a step  *)
(* that reads a message from the established connection under the token,   *)
(* the deadline of that connection is now + max_connection_age, the        *)
(* valid_until handed to run_handshakes_and_read_messages.                 *)
(***************************************************************************)
C11_RefreshedOnRead ==
    [][ ReadMessageStep =>
            /\ connections'[curToken].valid_until = ValidUntil_new(now)
            /\ connections'[curToken].valid_until = valid_until ]_vars

(***************************************************************************)
(* C12: handling a readable event never blocks the worker.  Whenever       *)
(* run_handshakes_and_read_messages has been entered for a token, whatever *)
(* the table holds under it, the worker is eventually back in the loop     *)
(* over the events.                                                        *)
(***************************************************************************)
C12_ReadReturnsToEvents == (wsPc = "read") ~> (wsPc = "events")

\* write_message was called
WriteStep == lastWrite'.n = lastWrite.n + 1

(***************************************************************************)
(* C13: a terminal I/O error frees the token, WouldBlock does not.  After  *)
(* read_message or write_message fails with an error other than WouldBlock *)
(* the table has no entry under the token; after WouldBlock the table is   *)
(* as it was.                                                              *)
(***************************************************************************)
C13_TerminalErrorFreesToken ==
    [][ /\ read_established("Err") => curToken \notin DOMAIN connections'
        /\ read_established("WouldBlock") => connections' = connections
        /\ (WriteStep /\ lastWrite'.result = "Err") =>
                lastWrite'.token \notin DOMAIN connections'
        /\ (WriteStep /\ lastWrite'.result = "WouldBlock") =>
                connections' = connections ]_vars

\* a write failed and the token of the connection it was for is free, while
\* another connection is still in the table
C13_Witness ==
    /\ lastWrite.result = "Err"
    /\ lastWrite.token \notin DOMAIN connections
    /\ DOMAIN connections # {}
    /\ wsPc = "send_out"

\* an iteration of the worker's loop ends
IterationEnd == wsPc = "clean" /\ wsPc' = "poll"

C15_PerConnectionFifo ==
    [][ /\ \A a, b \in 1..Len(inMessages') :
              (a < b /\ inMessages'[a].stream = inMessages'[b].stream) =>
                  inMessages'[a].seq < inMessages'[b].seq
        /\ read_established("Ok") =>
              /\ Len(inMessages') = Len(inMessages) + 1
              /\ SubSeq(inMessages', 1, Len(inMessages)) = inMessages
              /\ inMessages'[Len(inMessages')].seq = reads'
        /\ ReadMessageStep => ~wroteThisIter
        /\ WriteStep => (wsPc = "send_out" /\ wroteThisIter') ]_vars

\* two messages of one stream are on the channel in the order of reading,
\* the second read in the iteration after the one in which the answer to
\* the first was written
C15_Witness ==
    /\ Len(inMessages) = 2
    /\ inMessages[1].stream = inMessages[2].stream
    /\ inMessages[1].seq < inMessages[2].seq
    /\ lastWrite.n = 1
    /\ lastWrite.result = "Ok"
    /\ iterIndex = 1
    /\ ~wroteThisIter
    /\ wsPc = "read"

\* A step of the loop of run_handshakes_and_read_messages on a connection
\* that is still in a handshake stage.
HandshakeStep ==
    /\ wsPc = "read"
    /\ curToken \in DOMAIN connections
    /\ connections[curToken].stage # "established"

\* C16: an in-message is put on the channel only by a step whose token holds
\* a connection in the established stage, and it carries that token and that
\* connection's peer address; a step on a connection in the tcp, tls or ws
\* stage sends nothing, and when it yields no successor connection the token
\* is absent from the table after the step; a write goes to an established
\* connection only.
C16_OnlyEstablishedCarriesMessages ==
    [][ /\ (Len(inMessages') > Len(inMessages)) =>
              /\ wsPc = "read"
              /\ get_established_ws(connections, curToken)
              /\ inMessages'[Len(inMessages')].poll_token = curToken
              /\ inMessages'[Len(inMessages')].stream = connections[curToken].stream
              /\ inMessages'[Len(inMessages')].peer_addr =
                   peers[connections[curToken].stream]
        /\ HandshakeStep =>
              /\ inMessages' = inMessages
              /\ (lastHandshake' = "None") => (curToken \notin DOMAIN connections')
              /\ (lastHandshake' = "Some") => (curToken \in DOMAIN connections')
        /\ WriteStep =>
              get_established_ws(connections, lastWrite'.token)
      ]_vars

\* An established connection has sent an in-message while the handshake of
\* another connection has just yielded no successor, so that its token is
\* free.
C16_Witness ==
    /\ lastHandshake = "None"
    /\ curToken \notin DOMAIN connections
    /\ Len(inMessages) = 1
    /\ inMessages[1].poll_token # curToken
    /\ get_established_ws(connections, inMessages[1].poll_token)
    /\ \E t \in DOMAIN connections : connections[t].stage # "established"

\* The step of send_out_messages that takes the next out-message of the
\* drain.
SendOutStep == wsPc = "send_out" /\ drain # <<>>

\* the table holds an established connection under the token of the
\* metadata, and its peer address is the one the metadata records
MetaMatches(conns, meta) ==
    /\ get_established_ws(conns, meta.poll_token)
    /\ peers[conns[meta.poll_token].stream] = meta.peer_addr

\* C17: send_out_messages writes an out-message exactly when the table holds
\* an established connection under the message's token whose peer address is
\* the one in the message's metadata, and it writes to that connection; a
\* message whose token is absent, not established or held by a connection
\* with another peer address is taken from the drain without a write and
\* the table stays as it was.
C17_WriteOnlyToMatchingConnection ==
    [][ SendOutStep =>
          IF MetaMatches(connections, Head(drain))
          THEN /\ WriteStep
               /\ lastWrite'.token = Head(drain).poll_token
               /\ lastWrite'.stream = connections[Head(drain).poll_token].stream
               /\ peers[lastWrite'.stream] = Head(drain).peer_addr
          ELSE /\ lastWrite' = lastWrite
               /\ drain' = Tail(drain)
               /\ connections' = connections
      ]_vars

\* The reply to a message of a connection was taken from the drain without
\* a write in the first iteration, because its token has been handed out
\* again and now holds an established connection with another peer address.
C17_Witness ==
    /\ iterIndex = 0
    /\ wsPc = "send_out"
    /\ drain = <<>>
    /\ replied = 1
    /\ lastWrite.n = 0
    /\ Len(inMessages) = 1
    /\ get_established_ws(connections, inMessages[1].poll_token)
    /\ connections[inMessages[1].poll_token].stream # inMessages[1].stream
    /\ peers[connections[inMessages[1].poll_token].stream] # inMessages[1].peer_addr

====
